---- MODULE Spec2Model ----
(***************************************************************************)
(* Planning core of the code re-implementation system:                     *)
(*   src/strategy_generator.py  generate_strategy and its helpers          *)
(* Python dicts are sequences of [k, v] records in insertion order, Python   *)
(* lists are sequences.                                                    *)
(***************************************************************************)
EXTENDS Integers, Sequences, FiniteSets, TLC

(***************************************************************************)
(* Strings (Python str) are TLA+ strings: Len, SubSeq and \o act on their  *)
(* characters, and SubSeq(s, i, i) is the i-th character.                  *)
(***************************************************************************)
Range(s) == {s[i] : i \in 1..Len(s)}

LowercaseLetters == <<"a","b","c","d","e","f","g","h","i","j","k","l","m",
                      "n","o","p","q","r","s","t","u","v","w","x","y","z">>
UppercaseLetters == <<"A","B","C","D","E","F","G","H","I","J","K","L","M",
                      "N","O","P","Q","R","S","T","U","V","W","X","Y","Z">>
DigitChars == <<"0","1","2","3","4","5","6","7","8","9">>
Underscore == "_"
Chars == Range(LowercaseLetters) \cup Range(UppercaseLetters)
         \cup Range(DigitChars) \cup {Underscore}

CharAt(s, i) == SubSeq(s, i, i)

\* ord(c): the code point of a character
Ord ==
    [c \in Chars |->
        IF \E i \in 1..26 : LowercaseLetters[i] = c
        THEN 96 + (CHOOSE i \in 1..26 : LowercaseLetters[i] = c)
        ELSE IF \E i \in 1..26 : UppercaseLetters[i] = c
        THEN 64 + (CHOOSE i \in 1..26 : UppercaseLetters[i] = c)
        ELSE IF \E i \in 1..10 : DigitChars[i] = c
        THEN 47 + (CHOOSE i \in 1..10 : DigitChars[i] = c)
        ELSE 95]

\* str.lower() on one character and on a string
LowerChar ==
    [c \in Chars |->
        IF \E i \in 1..26 : UppercaseLetters[i] = c
        THEN LowercaseLetters[CHOOSE i \in 1..26 : UppercaseLetters[i] = c]
        ELSE c]
RECURSIVE Lower(_)
Lower(s) ==
    IF Len(s) = 0 THEN ""
    ELSE LowerChar[CharAt(s, 1)] \o Lower(SubSeq(s, 2, Len(s)))

\* s.startswith(p)
StartsWith(s, p) == Len(p) <= Len(s) /\ SubSeq(s, 1, Len(p)) = p

\* sub in s   (substring test)
Contains(s, sub) ==
    \E i \in 0..(Len(s) - Len(sub)) : SubSeq(s, i + 1, i + Len(sub)) = sub

\* Python's str comparison a < b: by code point, a proper prefix is smaller
StrLess(a, b) ==
    \E i \in 1..(Len(a) + 1) :
        /\ i <= Len(b)
        /\ SubSeq(a, 1, i - 1) = SubSeq(b, 1, i - 1)
        /\ (i = Len(a) + 1 \/ Ord[CharAt(a, i)] < Ord[CharAt(b, i)])

\* s.split('_'): the parts between underscores (empty parts kept)
RECURSIVE SplitFrom(_, _, _)
SplitFrom(s, i, cur) ==
    IF i > Len(s) THEN <<cur>>
    ELSE IF CharAt(s, i) = Underscore THEN <<cur>> \o SplitFrom(s, i + 1, "")
    ELSE SplitFrom(s, i + 1, cur \o CharAt(s, i))
Split(s) == SplitFrom(s, 1, "")

\* '_'.join(parts)
RECURSIVE Join(_)
Join(parts) ==
    IF Len(parts) = 0 THEN ""
    ELSE IF Len(parts) = 1 THEN parts[1]
    ELSE parts[1] \o Underscore \o Join(Tail(parts))

(***************************************************************************)
(* Python lists and insertion-ordered dicts.                               *)
(***************************************************************************)
\* the concatenation of a list of lists
RECURSIVE Flatten(_)
Flatten(ss) == IF Len(ss) = 0 THEN <<>> ELSE ss[1] \o Flatten(Tail(ss))

\* An operator's argument is computed when it is first read: a loop reads its
\* accumulator in every iteration, so that it is computed iteration by iteration.
Evaluated(acc) == acc = acc

\* a list given by its elements f[1], ..., f[n]
List(f) == <<>> \o f

DictKeys(d) == List([i \in 1..Len(d) |-> d[i].k])
DictHas(d, key) == \E i \in 1..Len(d) : d[i].k = key
DictGet(d, key) == d[CHOOSE i \in 1..Len(d) : d[i].k = key].v
\* d[key] = val: an existing key keeps its position
DictSet(d, key, val) ==
    IF DictHas(d, key)
    THEN List([i \in 1..Len(d) |-> IF d[i].k = key THEN [k |-> key, v |-> val] ELSE d[i]])
    ELSE Append(d, [k |-> key, v |-> val])

(***************************************************************************)
(* Specifications and the grouping of related entities.                    *)
(* A Specification is [entity_name, entity_type, dependencies]; the other  *)
(* fields of the dataclass are never read by the planner.                  *)
(***************************************************************************)
COMMON == "common"

\* len(name_parts[0]) > 3                                   (line 189)
MinPrefixLen == 3
\* len(groups["common"]) > 5                                (line 201)
CommonSplitThreshold == 5
\* len(group_specs) > 3                                     (line 134)
GroupStepThreshold == 3

\* lines 178-181: does spec join the existing group group_name
NameMatchesGroup(entity_name, group_name) ==
    /\ group_name # COMMON
    /\ \/ StartsWith(Lower(entity_name), Lower(group_name))
       \/ Contains(Lower(entity_name), Lower(group_name))

\* groups[key].append(spec), creating the group when it is missing
AppendToGroup(groups, key, spec) ==
    DictSet(groups, key,
            (IF DictHas(groups, key) THEN DictGet(groups, key) ELSE <<>>) \o <<spec>>)

\* one iteration of the loop of lines 173-198
AssignSpec(groups, spec) ==
    LET hits == {i \in 1..Len(groups) : NameMatchesGroup(spec.entity_name, groups[i].k)}
        name_parts == Split(spec.entity_name)
    IN  IF hits # {}
        THEN LET first == CHOOSE i \in hits : \A j \in hits : i <= j
             IN  AppendToGroup(groups, groups[first].k, spec)
        ELSE IF Len(name_parts) > 1 /\ Len(name_parts[1]) > MinPrefixLen
        THEN AppendToGroup(groups, Lower(name_parts[1]), spec)
        ELSE AppendToGroup(groups, COMMON, spec)

\* lines 170-198: the groups made by the name heuristics alone
RECURSIVE AssignAll(_, _)
AssignAll(groups, entity_specs) ==
    IF Evaluated(groups) /\ Len(entity_specs) = 0 THEN groups
    ELSE AssignAll(AssignSpec(groups, entity_specs[1]), Tail(entity_specs))

HeuristicGroups(entity_specs) ==
    AssignAll(<<[k |-> COMMON, v |-> <<>>]>>, entity_specs)

\* line 201: is the refinement collaborator called for these specs
NeedsRefinement(entity_specs) ==
    /\ Len(entity_specs) > 0
    /\ Len(DictGet(HeuristicGroups(entity_specs), COMMON)) > CommonSplitThreshold

(***************************************************************************)
(* The grouping-refinement collaborator answers with                       *)
(*   [kind |-> "unavailable"]   the request raised (lines 290-292)         *)
(*   [kind |-> "invalid_json"]  the content is no JSON (lines 286-288)     *)
(*   [kind |-> "mapping", result |-> dict group name -> set of names]      *)
(*   [kind |-> "not_a_mapping"] the JSON value is no object: result.items() *)
(*                              raises (line 275, caught at line 290)      *)
(*   [kind |-> "number_values"] an object whose values are numbers: the    *)
(*                              test `in` raises (line 278, caught at 290) *)
(*   [kind |-> "text_values", result |-> dict group name -> string]        *)
(*                              an object whose values are strings: the    *)
(*                              test `in` of line 278 is a substring test  *)
(***************************************************************************)
refine_groups_with_llm(specs, response) ==
    CASE response.kind = "mapping" ->
            List([i \in 1..Len(response.result) |->
                [k |-> response.result[i].k,
                 v |-> SelectSeq(specs, LAMBDA spec :
                                     spec.entity_name \in response.result[i].v)]])
      [] response.kind = "text_values" ->
            List([i \in 1..Len(response.result) |->
                [k |-> response.result[i].k,
                 v |-> SelectSeq(specs, LAMBDA spec :
                                     Contains(response.result[i].v, spec.entity_name))]])
      [] OTHER -> <<[k |-> COMMON, v |-> specs]>>

\* lines 206-208: groups[group_name] = specs for every refined group but common
RECURSIVE AddRefined(_, _)
AddRefined(groups, refined) ==
    IF Evaluated(groups) /\ Len(refined) = 0 THEN groups
    ELSE AddRefined(IF refined[1].k # COMMON
                    THEN DictSet(groups, refined[1].k, refined[1].v)
                    ELSE groups,
                    Tail(refined))

\* lines 200-216
RefineCommon(groups, response) ==
    LET refined == refine_groups_with_llm(DictGet(groups, COMMON), response)
        added == AddRefined(groups, refined)
        assigned_specs ==
            UNION {Range(refined[i].v) : i \in {j \in 1..Len(refined) : refined[j].k # COMMON}}
    IN  DictSet(added, COMMON,
                SelectSeq(DictGet(added, COMMON), LAMBDA spec : spec \notin assigned_specs))

group_related_entities(entity_specs, response) ==
    IF Len(entity_specs) = 0 THEN <<>>
    ELSE LET groups == HeuristicGroups(entity_specs)
             final == IF Len(DictGet(groups, COMMON)) > CommonSplitThreshold
                      THEN RefineCommon(groups, response)
                      ELSE groups
         IN  SelectSeq(final, LAMBDA g : Len(g.v) > 0)

(***************************************************************************)
(* Step synthesis.  An ImplementationStep is [id, description,             *)
(* dependencies]; description keeps what the f-string is built from:       *)
(* [kind, entity_type, name].                                              *)
(***************************************************************************)
ARCHITECTURE == "architecture"
PATTERN == "pattern"
SETUP == "setup"
ARCH_COMPONENTS == "arch_components"

\* lines 32-36: specs_by_type, keyed in order of first appearance
RECURSIVE GroupByType(_, _)
GroupByType(by_type, specs) ==
    IF Evaluated(by_type) /\ Len(specs) = 0 THEN by_type
    ELSE GroupByType(AppendToGroup(by_type, specs[1].entity_type, specs[1]), Tail(specs))
SpecsByType(specifications) == GroupByType(<<>>, specifications)

\* the entity types handled by generate_entity_type_steps (lines 56-57)
EntityTypes(specifications) ==
    SelectSeq(DictKeys(SpecsByType(specifications)),
              LAMBDA t : t # ARCHITECTURE /\ t # PATTERN)

\* the entity types whose common group is sent to the collaborator
RefinedTypes(specifications) ==
    {t \in Range(EntityTypes(specifications)) :
        NeedsRefinement(DictGet(SpecsByType(specifications), t))}

\* A step before its uuid is drawn: the id prefix, the description, and whether
\* it is created with the previous step as its dependency (line 108).
Draft(section, prefix, kind, entity_type, name, chained) ==
    [section |-> section, prefix |-> prefix, chained |-> chained,
     description |-> [kind |-> kind, entity_type |-> entity_type, name |-> name]]

\* lines 93-112: a Setup and a Components step per architecture specification
ArchDrafts(arch_specs) ==
    Flatten(List([i \in 1..Len(arch_specs) |->
        << Draft(ARCHITECTURE, SETUP, "setup", ARCHITECTURE,
                 arch_specs[i].entity_name, FALSE),
           Draft(ARCHITECTURE, ARCH_COMPONENTS, "components", ARCHITECTURE,
                 arch_specs[i].entity_name, TRUE) >>]))

\* one step per member of the group, whatever its size
MemberDrafts(entity_type, group) ==
    List([i \in 1..Len(group.v) |->
        Draft(entity_type,
              group.v[i].entity_type \o Underscore \o group.v[i].entity_name,
              "entity", group.v[i].entity_type, group.v[i].entity_name, FALSE)])

\* lines 134-152: one aggregate step for a large group, else one step per spec
GroupDrafts(entity_type, group) ==
    IF Len(group.v) > GroupStepThreshold
    THEN << Draft(entity_type, entity_type \o Underscore \o group.k,
                  "group", entity_type, group.k, FALSE) >>
    ELSE List([i \in 1..Len(group.v) |->
            Draft(entity_type,
                  group.v[i].entity_type \o Underscore \o group.v[i].entity_name,
                  "entity", group.v[i].entity_type, group.v[i].entity_name, FALSE)])

\* lines 127-154
EntityTypeDrafts(entity_type, entity_specs, response) ==
    LET groups == group_related_entities(entity_specs, response)
    IN  Flatten(List([i \in 1..Len(groups) |-> GroupDrafts(entity_type, groups[i])]))

\* lines 340-352
PatternDrafts(pattern_specs) ==
    List([i \in 1..Len(pattern_specs) |->
        Draft(PATTERN, PATTERN \o Underscore \o pattern_specs[i].entity_name,
              "pattern", PATTERN, pattern_specs[i].entity_name, FALSE)])

\* the answer used for entity type t (none is read when no request is made)
NoResponse == [kind |-> "unavailable"]
ResponseFor(responses, t) ==
    IF t \in DOMAIN responses THEN responses[t] ELSE NoResponse

\* lines 39-65: all steps of the run, in creation order
AllDrafts(specifications, responses) ==
    LET by_type == SpecsByType(specifications)
        types == EntityTypes(specifications)
    IN  (IF DictHas(by_type, ARCHITECTURE)
         THEN ArchDrafts(DictGet(by_type, ARCHITECTURE)) ELSE <<>>)
        \o Flatten(List([i \in 1..Len(types) |->
              EntityTypeDrafts(types[i], DictGet(by_type, types[i]),
                               ResponseFor(responses, types[i]))]))
        \o (IF DictHas(by_type, PATTERN)
            THEN PatternDrafts(DictGet(by_type, PATTERN)) ELSE <<>>)

\* str(uuid.uuid4())[:8]: the n-th draw of a run whose random source is `stream`
UuidLen == 8
Uuid(stream, n) == stream[((n - 1) % Len(stream)) + 1]

StepId(prefix, uuid) == prefix \o Underscore \o uuid

\* the steps with their ids: every step draws one uuid when it is created
MakeSteps(drafts, stream) ==
    List([i \in 1..Len(drafts) |->
        [id |-> StepId(drafts[i].prefix, Uuid(stream, i)),
         description |-> drafts[i].description,
         dependencies |-> IF drafts[i].chained
                          THEN <<StepId(drafts[i - 1].prefix, Uuid(stream, i - 1))>>
                          ELSE <<>>]])

\* lines 54-60: entity_steps_by_type
EntityStepsByType(specifications, drafts, made) ==
    LET types == EntityTypes(specifications)
    IN  List([i \in 1..Len(types) |->
            [k |-> types[i],
             v |-> LET idx == {j \in 1..Len(drafts) : drafts[j].section = types[i]}
                       first == CHOOSE j \in idx : \A m \in idx : j <= m
                   IN  IF idx = {} THEN <<>>
                       ELSE SubSeq(made, first, first + Cardinality(idx) - 1)]])

(***************************************************************************)
(* establish_step_dependencies (lines 356-431).                            *)
(***************************************************************************)
\* len(parts) >= 3                                          (line 379)
MinIdParts == 3

PATTERN_PREFIX == PATTERN \o Underscore
SETUP_PREFIX == SETUP \o Underscore
ARCH_COMPONENTS_PREFIX == ARCH_COMPONENTS \o Underscore

\* only the Setup steps count as architecture steps
IsSetupStepId(id) == StartsWith(id, SETUP_PREFIX)

\* step.id.startswith(('setup_', 'arch_components_'))
IsArchStepId(id) == StartsWith(id, SETUP_PREFIX) \/ StartsWith(id, ARCH_COMPONENTS_PREFIX)

\* line 373: spec_by_name (a later specification replaces an equally named one)
RECURSIVE SpecByName(_, _)
SpecByName(d, specifications) ==
    IF Evaluated(d) /\ Len(specifications) = 0 THEN d
    ELSE SpecByName(DictSet(d, specifications[1].entity_name, specifications[1]),
                    Tail(specifications))

\* lines 376-384: step_by_entity, keyed by (entity_type, entity_name) parsed
\* back from the step id
StepKey(id) ==
    LET parts == Split(id)
    IN  [entity_type |-> parts[1],
         entity_name |-> Join(SubSeq(parts, 2, Len(parts) - 1))]

RECURSIVE StepByEntity(_, _)
StepByEntity(d, steps) ==
    IF Evaluated(d) /\ Len(steps) = 0 THEN d
    ELSE StepByEntity(IF Len(Split(steps[1].id)) >= MinIdParts
                      THEN DictSet(d, StepKey(steps[1].id), steps[1])
                      ELSE d,
                      Tail(steps))

\* lines 401-405 and 413-417: the step found for (entity_type, entity_name),
\* as a list of at most one step
FindStep(step_by_entity, entity_type, entity_name) ==
    LET key == [entity_type |-> entity_type, entity_name |-> entity_name]
    IN  IF DictHas(step_by_entity, key) THEN <<DictGet(step_by_entity, key)>> ELSE <<>>

\* dependencies[id].append(dep)
AppendDep(dependencies, id, dep) ==
    DictSet(dependencies, id, Append(DictGet(dependencies, id), dep))

\* line 387
RECURSIVE InitDependencies(_, _)
InitDependencies(d, steps) ==
    IF Evaluated(d) /\ Len(steps) = 0 THEN d
    ELSE InitDependencies(DictSet(d, steps[1].id, <<>>), Tail(steps))

\* lines 395-396: one step gets every architecture step appended
RECURSIVE AppendAll(_, _, _)
AppendAll(dependencies, id, dep_ids) ==
    IF Evaluated(dependencies) /\ Len(dep_ids) = 0 THEN dependencies
    ELSE AppendAll(AppendDep(dependencies, id, dep_ids[1]), id, Tail(dep_ids))

\* lines 390-396
RECURSIVE GateOnArchitecture(_, _, _)
GateOnArchitecture(dependencies, steps, arch_ids) ==
    IF Evaluated(dependencies) /\ Len(steps) = 0 THEN dependencies
    ELSE GateOnArchitecture(
            IF ~IsArchStepId(steps[1].id)
            THEN AppendAll(dependencies, steps[1].id, arch_ids)
            ELSE dependencies,
            Tail(steps), arch_ids)

\* a declared name that resolves to no step is recorded as it stands
RECURSIVE WireDeclaredOrName(_, _, _, _, _)
WireDeclaredOrName(dependencies, entity_step, dep_names, spec_by_name, step_by_entity) ==
    IF Evaluated(dependencies) /\ Len(dep_names) = 0 THEN dependencies
    ELSE LET dep_name == dep_names[1]
             dep_step == IF DictHas(spec_by_name, dep_name)
                         THEN FindStep(step_by_entity,
                                       DictGet(spec_by_name, dep_name).entity_type,
                                       dep_name)
                         ELSE <<>>
             dep_id == IF Len(dep_step) > 0 THEN dep_step[1].id ELSE dep_name
             next == IF dep_id \notin Range(DictGet(dependencies, entity_step.id))
                     THEN AppendDep(dependencies, entity_step.id, dep_id)
                     ELSE dependencies
         IN  WireDeclaredOrName(next, entity_step, Tail(dep_names), spec_by_name,
                                step_by_entity)

\* lines 408-420: the declared dependencies of one specification
RECURSIVE WireDeclared(_, _, _, _, _)
WireDeclared(dependencies, entity_step, dep_names, spec_by_name, step_by_entity) ==
    IF Evaluated(dependencies) /\ Len(dep_names) = 0 THEN dependencies
    ELSE LET dep_name == dep_names[1]
             dep_step == IF DictHas(spec_by_name, dep_name)
                         THEN FindStep(step_by_entity,
                                       DictGet(spec_by_name, dep_name).entity_type,
                                       dep_name)
                         ELSE <<>>
             next == IF /\ Len(dep_step) > 0
                        /\ dep_step[1].id \notin Range(DictGet(dependencies, entity_step.id))
                     THEN AppendDep(dependencies, entity_step.id, dep_step[1].id)
                     ELSE dependencies
         IN  WireDeclared(next, entity_step, Tail(dep_names), spec_by_name, step_by_entity)

\* lines 399-420
RECURSIVE WireSpecs(_, _, _, _)
WireSpecs(dependencies, specs, spec_by_name, step_by_entity) ==
    IF Evaluated(dependencies) /\ Len(specs) = 0 THEN dependencies
    ELSE LET entity_step == FindStep(step_by_entity, specs[1].entity_type,
                                     specs[1].entity_name)
         IN  WireSpecs(IF Len(entity_step) > 0
                       THEN WireDeclared(dependencies, entity_step[1],
                                         specs[1].dependencies, spec_by_name,
                                         step_by_entity)
                       ELSE dependencies,
                       Tail(specs), spec_by_name, step_by_entity)

\* lines 426-429: one pattern step gets every entity step not yet listed
RECURSIVE AppendMissing(_, _, _)
AppendMissing(dependencies, id, dep_ids) ==
    IF Evaluated(dependencies) /\ Len(dep_ids) = 0 THEN dependencies
    ELSE AppendMissing(IF dep_ids[1] \notin Range(DictGet(dependencies, id))
                       THEN AppendDep(dependencies, id, dep_ids[1])
                       ELSE dependencies,
                       id, Tail(dep_ids))

\* lines 423-429
RECURSIVE WirePatterns(_, _, _)
WirePatterns(dependencies, pattern_steps, entity_ids) ==
    IF Evaluated(dependencies) /\ Len(pattern_steps) = 0 THEN dependencies
    ELSE WirePatterns(AppendMissing(dependencies, pattern_steps[1].id, entity_ids),
                      Tail(pattern_steps), entity_ids)

establish_step_dependencies(steps, entity_steps_by_type, specifications) ==
    LET spec_by_name == SpecByName(<<>>, specifications)
        step_by_entity == StepByEntity(<<>>, steps)
        arch_steps == SelectSeq(steps, LAMBDA step : IsArchStepId(step.id))
        arch_ids == List([i \in 1..Len(arch_steps) |-> arch_steps[i].id])
        gated == GateOnArchitecture(InitDependencies(<<>>, steps), steps, arch_ids)
        wired == WireSpecs(gated, specifications, spec_by_name, step_by_entity)
        pattern_steps == SelectSeq(steps, LAMBDA step : StartsWith(step.id, PATTERN_PREFIX))
        entity_steps == Flatten(List([i \in 1..Len(entity_steps_by_type) |->
                                    entity_steps_by_type[i].v]))
        entity_ids == List([i \in 1..Len(entity_steps) |-> entity_steps[i].id])
    IN  WirePatterns(wired, pattern_steps, entity_ids)

(***************************************************************************)
(* networkx.DiGraph as used by calculate_execution_order: nodes in         *)
(* insertion order, and for every node its successors in insertion order.  *)
(***************************************************************************)
EmptyGraph == [nodes |-> <<>>, edges |-> <<>>]

\* graph.add_node(n)
AddNode(g, n) ==
    IF n \in Range(g.nodes) THEN g ELSE [g EXCEPT !.nodes = Append(@, n)]

\* graph.add_edge(u, v): missing end points become nodes, a known edge stays
AddEdge(g, u, v) ==
    LET withNodes == AddNode(AddNode(g, u), v)
    IN  IF <<u, v>> \in Range(g.edges) THEN withNodes
        ELSE [withNodes EXCEPT !.edges = Append(@, <<u, v>>)]

\* G[u]: the successors of u in insertion order
Succ(g, u) ==
    LET out == SelectSeq(g.edges, LAMBDA e : e[1] = u)
    IN  List([i \in 1..Len(out) |-> out[i][2]])

InDegree(g, v) == Cardinality({e \in Range(g.edges) : e[2] = v})

\* graph.edges(): by node, then by successor
GraphEdges(g) ==
    Flatten(List([i \in 1..Len(g.nodes) |->
                List([j \in 1..Len(Succ(g, g.nodes[i])) |->
                    <<g.nodes[i], Succ(g, g.nodes[i])[j]>>])]))

\* lines 451-452
RECURSIVE AddNodes(_, _)
AddNodes(g, steps) ==
    IF Evaluated(g) /\ Len(steps) = 0 THEN g ELSE AddNodes(AddNode(g, steps[1].id), Tail(steps))

\* lines 456-457: the edges dep_id -> step_id of one dependencies entry
RECURSIVE AddDepEdges(_, _, _)
AddDepEdges(g, step_id, deps) ==
    IF Evaluated(g) /\ Len(deps) = 0 THEN g
    ELSE AddDepEdges(AddEdge(g, deps[1], step_id), step_id, Tail(deps))

\* lines 455-457
RECURSIVE AddAllEdges(_, _)
AddAllEdges(g, dependencies) ==
    IF Evaluated(g) /\ Len(dependencies) = 0 THEN g
    ELSE AddAllEdges(AddDepEdges(g, dependencies[1].k, dependencies[1].v),
                     Tail(dependencies))

\* lines 448-457
BuildGraph(steps, dependencies) ==
    AddAllEdges(AddNodes(EmptyGraph, steps), dependencies)

(***************************************************************************)
(* nx.topological_sort: Kahn's algorithm by generations.  The result is    *)
(* [ok, order]; ok = FALSE stands for NetworkXUnfeasible.                  *)
(***************************************************************************)
\* one generation: every child of the generation's nodes loses one unit of
\* in-degree, and joins the next generation when it reaches zero
RECURSIVE RelaxChildren(_, _, _)
RelaxChildren(children, indegree, next) ==
    IF Evaluated(indegree) /\ Evaluated(next) /\ Len(children) = 0
    THEN [indegree |-> indegree, next |-> next]
    ELSE LET child == children[1]
             d == indegree[child] - 1
         IN  RelaxChildren(Tail(children),
                           [indegree EXCEPT ![child] = d],
                           IF d = 0 THEN Append(next, child) ELSE next)

RECURSIVE Generations(_, _, _, _)
Generations(g, generation, indegree, order) ==
    IF Evaluated(indegree) /\ Evaluated(order) /\ Len(generation) = 0
    THEN [ok |-> \A n \in Range(g.nodes) : indegree[n] = 0, order |-> order]
    ELSE LET children == Flatten(List([i \in 1..Len(generation) |-> Succ(g, generation[i])]))
             r == RelaxChildren(children, indegree, <<>>)
         IN  Generations(g, r.next, r.indegree, order \o generation)

\* the nodes in insertion order, whatever the edges
InsertionOrder(g) == [ok |-> TRUE, order |-> g.nodes]

topological_sort(g) ==
    LET indegree == [n \in Range(g.nodes) |-> InDegree(g, n)]
        zero_indegree == SelectSeq(g.nodes, LAMBDA n : indegree[n] = 0)
    IN  Generations(g, zero_indegree, indegree, <<>>)

(***************************************************************************)
(* nx.strongly_connected_components: the non-recursive Tarjan/Nuutila scan *)
(* (preorder numbers, lowlinks, one neighbour iterator per node).  The     *)
(* state is [preorder, lowlink, scc_found, scc_queue, i, pos, queue, out]; *)
(* preorder 0 stands for "not numbered yet", pos[v] counts the neighbours  *)
(* of v its iterator has handed out, out lists the components yielded.     *)
(***************************************************************************)
Min2(a, b) == IF a <= b THEN a ELSE b

\* the first neighbour of v, from iterator position p on, not numbered yet
\* (0 when the iterator runs out)
NextUnvisited(nbrs, p, preorder) ==
    LET cand == {j \in (p + 1)..Len(nbrs) : preorder[nbrs[j]] = 0}
    IN  IF cand = {} THEN 0 ELSE CHOOSE j \in cand : \A m \in cand : j <= m

\* lowlink[v] once all neighbours of v are numbered
RECURSIVE LowLink(_, _, _, _)
LowLink(nbrs, v, st, low) ==
    IF Evaluated(low) /\ Len(nbrs) = 0 THEN low
    ELSE LET w == nbrs[1]
         IN  LowLink(Tail(nbrs), v, st,
                     IF w \in st.scc_found THEN low
                     ELSE IF st.preorder[w] > st.preorder[v]
                          THEN Min2(low, st.lowlink[w])
                          ELSE Min2(low, st.preorder[w]))

\* scc_queue entries numbered after v are popped into v's component
RECURSIVE PopComponent(_, _, _, _)
PopComponent(scc_queue, preorder, v, scc) ==
    IF Evaluated(scc) /\ Len(scc_queue) > 0 /\ preorder[scc_queue[Len(scc_queue)]] > preorder[v]
    THEN PopComponent(SubSeq(scc_queue, 1, Len(scc_queue) - 1), preorder, v,
                      scc \cup {scc_queue[Len(scc_queue)]})
    ELSE [scc_queue |-> scc_queue, scc |-> scc]

\* the while loop over `queue`
RECURSIVE SccVisit(_, _)
SccVisit(g, st) ==
    IF Len(st.queue) = 0 THEN st
    ELSE
    LET v == st.queue[Len(st.queue)]
        numbered == st.preorder[v] # 0
        i1 == IF numbered THEN st.i ELSE st.i + 1
        pre1 == IF numbered THEN st.preorder ELSE [st.preorder EXCEPT ![v] = i1]
        nbrs == Succ(g, v)
        j == NextUnvisited(nbrs, st.pos[v], pre1)
    IN  IF j # 0
        THEN SccVisit(g, [st EXCEPT !.i = i1, !.preorder = pre1,
                                     !.pos = [@ EXCEPT ![v] = j],
                                     !.queue = Append(@, nbrs[j])])
        ELSE
        LET st1 == [st EXCEPT !.i = i1, !.preorder = pre1,
                              !.pos = [@ EXCEPT ![v] = Len(nbrs)]]
            low == LowLink(nbrs, v, st1, pre1[v])
            st2 == [st1 EXCEPT !.lowlink = [@ EXCEPT ![v] = low],
                               !.queue = SubSeq(@, 1, Len(@) - 1)]
        IN  IF low = pre1[v]
            THEN LET p == PopComponent(st2.scc_queue, pre1, v, {v})
                 IN  SccVisit(g, [st2 EXCEPT !.scc_queue = p.scc_queue,
                                             !.scc_found = @ \cup p.scc,
                                             !.out = Append(@, p.scc)])
            ELSE SccVisit(g, [st2 EXCEPT !.scc_queue = Append(@, v)])

\* for source in G: if source not in scc_found: ...
RECURSIVE SccSources(_, _, _)
SccSources(g, sources, st) ==
    IF Evaluated(st) /\ Len(sources) = 0 THEN st
    ELSE SccSources(g, Tail(sources),
                    IF sources[1] \in st.scc_found THEN st
                    ELSE SccVisit(g, [st EXCEPT !.queue = <<sources[1]>>]))

\* the components in the order they are yielded
strongly_connected_components(g) ==
    SccSources(g, g.nodes,
               [preorder |-> [n \in Range(g.nodes) |-> 0],
                lowlink |-> [n \in Range(g.nodes) |-> 0],
                scc_found |-> {}, scc_queue |-> <<>>, i |-> 0,
                pos |-> [n \in Range(g.nodes) |-> 0],
                queue |-> <<>>, out |-> <<>>]).out

(***************************************************************************)
(* calculate_execution_order (lines 433-501).                              *)
(***************************************************************************)
\* the ids in descending order
RECURSIVE DescendingIds(_)
DescendingIds(ids) ==
    IF ids = {} THEN <<>>
    ELSE LET greatest == CHOOSE a \in ids : \A b \in ids \ {a} : StrLess(b, a)
         IN  <<greatest>> \o DescendingIds(ids \ {greatest})

\* list.sort() on step ids
RECURSIVE SortedIds(_)
SortedIds(ids) ==
    IF ids = {} THEN <<>>
    ELSE LET least == CHOOSE a \in ids : \A b \in ids \ {a} : StrLess(a, b)
         IN  <<least>> \o SortedIds(ids \ {least})

\* line 465: the message carries no values
CYCLE_WARNING == [message |-> "Cyclic dependencies detected in implementation steps",
                  edges |-> {}]

\* every edge is carried over to component_graph, the edges inside one
\* component included
RECURSIVE AddEveryComponentEdge(_, _, _)
AddEveryComponentEdge(cg, edges, node_to_component) ==
    IF Evaluated(cg) /\ Len(edges) = 0 THEN cg
    ELSE AddEveryComponentEdge(AddEdge(cg, node_to_component[edges[1][1]],
                                       node_to_component[edges[1][2]]),
                               Tail(edges), node_to_component)

\* lines 471-485: component_graph, its nodes the indices of `components`
RECURSIVE AddComponentEdges(_, _, _)
AddComponentEdges(cg, edges, node_to_component) ==
    IF Evaluated(cg) /\ Len(edges) = 0 THEN cg
    ELSE LET u_component == node_to_component[edges[1][1]]
             v_component == node_to_component[edges[1][2]]
         IN  AddComponentEdges(IF u_component # v_component
                               THEN AddEdge(cg, u_component, v_component)
                               ELSE cg,
                               Tail(edges), node_to_component)

ComponentGraph(g, components) ==
    LET node_to_component ==
            [n \in Range(g.nodes) |->
                CHOOSE i \in 1..Len(components) : n \in components[i]]
    IN  AddComponentEdges([nodes |-> List([i \in 1..Len(components) |-> i]), edges |-> <<>>],
                          GraphEdges(g), node_to_component)

\* lines 467-501: the order on the cyclic path; raised when the sort of the
\* component graph is unfeasible too (line 488 is outside any try)
FallbackOrder(g) ==
    LET components == strongly_connected_components(g)
        sorted == topological_sort(ComponentGraph(g, components))
    IN  [raised |-> ~sorted.ok,
         execution_order |->
            Flatten(List([i \in 1..Len(sorted.order) |-> SortedIds(components[sorted.order[i]])])),
         warnings |-> <<CYCLE_WARNING>>]

calculate_execution_order(steps, dependencies) ==
    LET graph == BuildGraph(steps, dependencies)
        sorted == topological_sort(graph)
    IN  IF sorted.ok
        THEN [raised |-> FALSE, execution_order |-> sorted.order, warnings |-> <<>>]
        ELSE FallbackOrder(graph)

(***************************************************************************)
(* Inputs of a planning run.                                               *)
(***************************************************************************)
CLASS == "class"
FUNCTION == "function"

Specification(entity_name, entity_type, dependencies) ==
    [entity_name |-> entity_name, entity_type |-> entity_type,
     dependencies |-> dependencies]

CART == "cart"
CART_ITEM == "cart_item"
ORDER == "order"
OBS == "obs"
MVC == "mvc"
USER == "user"
USER_A == "user_a"
API == "api"
CORE == "core"

\* the specifications small inputs are built from: cyclic, reflexive and
\* absent dependencies, a pattern, an architecture, two entity types
SmallUniverse ==
    { Specification(CART, CLASS, <<>>),
      Specification(CART, CLASS, <<ORDER>>),
      Specification(CART, CLASS, <<OBS>>),
      Specification(ORDER, CLASS, <<CART>>),
      Specification(ORDER, CLASS, <<ORDER>>),
      Specification(ORDER, CLASS, <<"ghost">>),
      Specification(ORDER, FUNCTION, <<>>),
      Specification(CART_ITEM, CLASS, <<CART>>),
      Specification(OBS, PATTERN, <<>>),
      Specification(OBS, PATTERN, <<CART>>),
      Specification(MVC, ARCHITECTURE, <<>>) }

\* larger projects; an input is a sub-list of one of them
UserProject ==
    << Specification(API, CLASS, <<USER_A>>),
       Specification(USER, CLASS, <<>>),
       Specification(USER_A, CLASS, <<>>),
       Specification("user_b", CLASS, <<USER_A>>),
       Specification("user_c", CLASS, <<>>),
       Specification("User_d", CLASS, <<API>>),
       Specification(MVC, ARCHITECTURE, <<>>),
       Specification(OBS, PATTERN, <<>>) >>

FlatProject ==
    << Specification(MVC, ARCHITECTURE, <<>>),
       Specification(USER_A, CLASS, <<>>),
       Specification(API, CLASS, <<>>),
       Specification("db", CLASS, <<API>>),
       Specification("io", CLASS, <<>>),
       Specification("log", CLASS, <<>>),
       Specification("net", CLASS, <<>>),
       Specification("ui", CLASS, <<>>),
       Specification("vm", CLASS, <<>>) >>

\* two names that meet only when letter case is ignored
CaseProject ==
    << Specification(USER_A, CLASS, <<>>),
       Specification("Users", CLASS, <<>>) >>

Projects == {UserProject, FlatProject, CaseProject}

\* the longest small input, and the longest sub-list of a project
MaxSpecs == 3
MaxPick == 7

RECURSIVE SeqsUpTo(_, _)
SeqsUpTo(S, n) ==
    IF n = 0 THEN {<<>>}
    ELSE LET shorter == SeqsUpTo(S, n - 1)
         IN  shorter \cup {Append(q, x) : q \in {r \in shorter : Len(r) = n - 1}, x \in S}

\* the sub-list of project at the positions in `picked`
RECURSIVE SubList(_, _, _)
SubList(project, picked, i) ==
    IF i > Len(project) THEN <<>>
    ELSE (IF i \in picked THEN <<project[i]>> ELSE <<>>) \o SubList(project, picked, i + 1)

SubLists(project) ==
    {SubList(project, picked, 1) :
        picked \in {P \in SUBSET (1..Len(project)) : Cardinality(P) <= MaxPick}}

Inputs == SeqsUpTo(SmallUniverse, MaxSpecs) \cup UNION {SubLists(project) : project \in Projects}

\* uuid4 prefixes: the least and the greatest string of 8 hex digits
RECURSIVE Repeat(_, _)
Repeat(c, n) == IF n = 0 THEN "" ELSE c \o Repeat(c, n - 1)
UuidLow == Repeat("0", UuidLen)
UuidHigh == Repeat("f", UuidLen)
\* the random source of a run: the draws repeat the stream cyclically, so
\* <<UuidLow>> makes every draw collide
UuidStreams == {<<UuidLow, UuidHigh>>, <<UuidHigh, UuidLow>>, <<UuidLow>>}

\* the collaborator's answers to a request listing `requested` (the common
\* group) when the name heuristics made the groups `existing`
LlmGroupNames(existing) == {COMMON, CORE} \cup (Range(DictKeys(existing)) \ {COMMON})
LlmNameLists(requested) ==
    LET names == List([i \in 1..Len(requested) |-> requested[i].entity_name])
    IN  SUBSET {names[1], names[2]} \cup {Range(names)}
LlmEntries(requested, existing) ==
    {[k |-> g, v |-> ns] : g \in LlmGroupNames(existing), ns \in LlmNameLists(requested)}
\* a string that holds the first two requested names
LlmText(requested) == requested[1].entity_name \o "," \o requested[2].entity_name
LlmResponses(requested, existing) ==
    {[kind |-> "unavailable"], [kind |-> "invalid_json"],
     [kind |-> "not_a_mapping"], [kind |-> "number_values"],
     [kind |-> "text_values", result |-> <<[k |-> CORE, v |-> LlmText(requested)]>>],
     [kind |-> "text_values", result |-> <<[k |-> CORE, v |-> ""]>>]}
    \cup {[kind |-> "mapping", result |-> <<e>>] : e \in LlmEntries(requested, existing)}
    \cup {[kind |-> "mapping", result |-> <<pair[1], pair[2]>>] :
            pair \in {pr \in LlmEntries(requested, existing)
                              \X LlmEntries(requested, existing) : pr[1].k # pr[2].k}}

\* the answers to the requests of one run, per entity type
ResponseChoices(specifications) ==
    LET by_type == SpecsByType(specifications)
        request(t) == DictGet(HeuristicGroups(DictGet(by_type, t)), COMMON)
        existing(t) == HeuristicGroups(DictGet(by_type, t))
    IN  {f \in [RefinedTypes(specifications) ->
                    UNION {LlmResponses(request(t), existing(t)) :
                             t \in RefinedTypes(specifications)}] :
            \A t \in DOMAIN f : f[t] \in LlmResponses(request(t), existing(t))}

(***************************************************************************)
(* StrategyGenerator (src/code_analysis/core/strategy_generator.py): one   *)
(* object with a dependency_graph field, on which generate_strategy runs.  *)
(* A run is [pc, specifications, i, dependencies]: its position, its       *)
(* argument, the index of the loop it is in, and the dependencies of the   *)
(* Strategy it returned.                                                   *)
(***************************************************************************)
\* the specification as StrategyGenerator reads it: spec.id, spec.dependencies
PlanSpecification(id, dependencies) == [id |-> id, dependencies |-> dependencies]

\* __init__ (line 51)
NewGenerator(runs) == [dependency_graph |-> EmptyGraph, runs |-> runs]

\* a call of generate_strategy(specifications) that has not run yet
NewRun(specifications) ==
    [pc |-> "start", specifications |-> specifications, i |-> 1, dependencies |-> <<>>]

\* lines 104-111: the Requires edges spec.id -> dep of one specification
RECURSIVE AddRequires(_, _, _)
AddRequires(g, id, deps) ==
    IF Evaluated(g) /\ Len(deps) = 0 THEN g
    ELSE AddRequires(AddEdge(g, id, deps[1]), id, Tail(deps))

\* the arguments of the two interleaved runs: different specification sets
MaxRunSpecs == 2
FirstSet == {PlanSpecification(CART, <<ORDER>>), PlanSpecification(ORDER, <<>>),
             PlanSpecification(ORDER, <<CART>>)}
SecondSet == {PlanSpecification(USER, <<API>>), PlanSpecification(API, <<>>)}

(***************************************************************************)
(* StrategyGenerator._break_cycles (lines 323-340): the repair loop on a   *)
(* step graph whose edges may carry a strength.  The strengths are in      *)
(* tenths; `data` lists the edges that carry one, [k |-> edge, v |-> s].   *)
(* nx.simple_cycles yields the self-loops first and then, component by     *)
(* component, the cycles through a node it takes from a set: which cycle   *)
(* comes first, and at which of its nodes the list starts, is not fixed.   *)
(***************************************************************************)
\* line 334: graph.edges[e].get('strength', 1.0)
DefaultStrength == 10
Strength(data, e) == IF DictHas(data, e) THEN DictGet(data, e) ELSE DefaultStrength

\* the node after position i of a cycle: the last node leads to the first
NextOnCycle(cycle, i) == cycle[(i % Len(cycle)) + 1]

\* nx.simple_cycles: the node lists of the elementary circuits of g
simple_cycles(g) ==
    {c \in SeqsUpTo(Range(g.nodes), Len(g.nodes)) :
        /\ Len(c) > 0
        /\ Cardinality(Range(c)) = Len(c)
        /\ \A i \in 1..Len(c) : <<c[i], NextOnCycle(c, i)>> \in Range(g.edges)}

\* nx.is_directed_acyclic_graph: no circuit, self-loops included
is_directed_acyclic_graph(g) == simple_cycles(g) = {}

\* the cycles that can be cycles[0] (line 331)
FirstCycles(g) ==
    LET loops == {c \in simple_cycles(g) : Len(c) = 1}
    IN  IF loops # {} THEN loops ELSE simple_cycles(g)

\* line 333: zip(cycle, cycle[1:])
ConsecutivePairs(cycle) == List([i \in 1..(Len(cycle) - 1) |-> <<cycle[i], cycle[i + 1]>>])

\* lines 332-335: min(..., key=strength) returns the first of the weakest
WeakestEdge(pairs, data) ==
    pairs[CHOOSE i \in 1..Len(pairs) :
            /\ \A j \in 1..Len(pairs) : Strength(data, pairs[i]) <= Strength(data, pairs[j])
            /\ \A j \in 1..(i - 1) : Strength(data, pairs[j]) > Strength(data, pairs[i])]

KeepEdge(g, e) == g

\* line 338: graph.remove_edge(u, v)
RemoveEdge(g, e) == [g EXCEPT !.edges = SelectSeq(@, LAMBDA x : x # e)]

\* no call of _break_cycles
NoRepair == [pc |-> "idle"]

(***************************************************************************)
(* The planning run as a state machine.                                    *)
(***************************************************************************)
VARIABLES specifications, pc, responses, groups, steps, entity_steps_by_type,
          dependencies, execution_order, warnings, previous, strategy_generator,
          repair

vars == <<specifications, pc, responses, groups, steps, entity_steps_by_type,
          dependencies, execution_order, warnings, previous, strategy_generator,
          repair>>

\* the state before generate_strategy starts on its argument
Started(inputs) ==
    /\ specifications \in inputs
    /\ pc = "start"
    /\ responses = <<>>
    /\ groups = <<>>
    /\ steps = <<>>
    /\ entity_steps_by_type = <<>>
    /\ dependencies = <<>>
    /\ execution_order = <<>>
    /\ warnings = <<>>
    /\ previous = <<>>
    /\ strategy_generator = NewGenerator(<<>>)
    /\ repair = NoRepair

Init == Started(Inputs)

\* lines 32-65: the steps are synthesized; `groups` records what
\* group_related_entities returned for each entity type
SynthesizeSteps ==
    /\ pc = "start"
    /\ \E stream \in UuidStreams, answers \in ResponseChoices(specifications) :
        LET drafts == AllDrafts(specifications, answers)
            made == MakeSteps(drafts, stream)
            types == EntityTypes(specifications)
        IN  /\ steps' = made
            /\ entity_steps_by_type' = EntityStepsByType(specifications, drafts, made)
            /\ responses' = answers
            /\ groups' = List([i \in 1..Len(types) |->
                            [k |-> types[i],
                             v |-> group_related_entities(
                                      DictGet(SpecsByType(specifications), types[i]),
                                      ResponseFor(answers, types[i]))]])
    /\ pc' = "synthesized"
    /\ UNCHANGED <<specifications, dependencies, execution_order, warnings, previous,
                   strategy_generator, repair>>

\* line 68
EstablishDependencies ==
    /\ pc = "synthesized"
    /\ dependencies' = establish_step_dependencies(steps, entity_steps_by_type,
                                                   specifications)
    /\ pc' = "wired"
    /\ UNCHANGED <<specifications, responses, groups, steps, entity_steps_by_type,
                   execution_order, warnings, previous, strategy_generator, repair>>

\* lines 71-79: "done" is the return of the ImplementationStrategy, "raised" an
\* exception that leaves generate_strategy
CalculateOrder ==
    /\ pc = "wired"
    /\ LET r == calculate_execution_order(steps, dependencies)
       IN  /\ execution_order' = r.execution_order
           /\ warnings' = r.warnings
           /\ pc' = IF r.raised THEN "raised" ELSE "done"
    /\ UNCHANGED <<specifications, responses, groups, steps, entity_steps_by_type,
                   dependencies, previous, strategy_generator, repair>>

Next == SynthesizeSteps \/ EstablishDependencies \/ CalculateOrder

Spec == Init /\ [][Next]_vars

\* A second call of generate_strategy with the same argument: the Strategy of
\* the first call is kept in `previous`.
Rerun ==
    /\ pc = "done"
    /\ previous = <<>>
    /\ previous' = [responses |-> responses, dependencies |-> dependencies,
                    execution_order |-> execution_order]
    /\ pc' = "start"
    /\ responses' = <<>>
    /\ groups' = <<>>
    /\ steps' = <<>>
    /\ entity_steps_by_type' = <<>>
    /\ dependencies' = <<>>
    /\ execution_order' = <<>>
    /\ warnings' = <<>>
    /\ UNCHANGED <<specifications, strategy_generator, repair>>

MaxRerunSpecs == 2

InitRerun == Started(SeqsUpTo(SmallUniverse, MaxRerunSpecs))

NextRerun == SynthesizeSteps \/ EstablishDependencies \/ CalculateOrder \/ Rerun

SpecRerun == InitRerun /\ [][NextRerun]_vars

(***************************************************************************)
(* The Strategy returned by generate_strategy, read from the state.        *)
(***************************************************************************)
Returned == pc = "done"

StepIds == {steps[i].id : i \in 1..Len(steps)}

\* dependency_map[id]
DependencyMap(id) == Range(DictGet(dependencies, id))

\* the edges dep -> step of dependency_map
MapHasCycle ==
    \E S \in SUBSET {dependencies[i].k : i \in 1..Len(dependencies)} :
        /\ S # {}
        /\ \A n \in S : DependencyMap(n) \cap S # {}

Precedes(a, b) ==
    \E i, j \in 1..Len(execution_order) :
        i < j /\ execution_order[i] = a /\ execution_order[j] = b

Occurrences(seq, x) == Cardinality({i \in 1..Len(seq) : seq[i] = x})

\* the path calculate_execution_order took: a warning is logged on the
\* strongly-connected-component path only
FallbackPath == Len(warnings) > 0

\* C1: for any input specification set, cyclic declared dependencies
\* included, the dependency_map of the returned Strategy is acyclic.
C1_DependencyMapAcyclic == Returned => ~MapHasCycle

\* C2: in the returned Strategy, whenever dependency_map[b] contains a, step
\* a appears strictly before step b in execution_order.
C2_TopologicalValidity ==
    Returned =>
        \A i \in 1..Len(dependencies) :
            \A a \in Range(dependencies[i].v) : Precedes(a, dependencies[i].k)

\* C3: execution_order is a permutation of the ids of the synthesized steps:
\* every step appears exactly once and nothing else appears, on the plain
\* topological-sort path and on the strongly-connected-component path.
C3_OrderIsPermutation ==
    Returned =>
        /\ Len(execution_order) = Len(steps)
        /\ \A i \in 1..Len(steps) : Occurrences(execution_order, steps[i].id) = 1
        /\ Range(execution_order) \subseteq StepIds

\* the groups group_related_entities returned for entity type t
GroupsOf(t) == DictGet(groups, t)

\* the specifications of entity type t, in input order (the argument of
\* group_related_entities)
InputOfType(t) == SelectSeq(specifications, LAMBDA spec : spec.entity_type = t)

HasStep(kind, entity_type, name) ==
    \E i \in 1..Len(steps) :
        steps[i].description =
            [kind |-> kind, entity_type |-> entity_type, name |-> name]

\* spec is implemented by the aggregate step of a group it belongs to
HasGroupStep(spec) ==
    \E j \in 1..Len(GroupsOf(spec.entity_type)) :
        /\ spec \in Range(GroupsOf(spec.entity_type)[j].v)
        /\ HasStep("group", spec.entity_type, GroupsOf(spec.entity_type)[j].k)

YieldsStep(spec) ==
    CASE spec.entity_type = ARCHITECTURE ->
            /\ HasStep("setup", ARCHITECTURE, spec.entity_name)
            /\ HasStep("components", ARCHITECTURE, spec.entity_name)
      [] spec.entity_type = PATTERN ->
            HasStep("pattern", PATTERN, spec.entity_name)
      [] OTHER ->
            \/ HasStep("entity", spec.entity_type, spec.entity_name)
            \/ HasGroupStep(spec)

Synthesized == pc # "start"

\* C4: every specification passed to generate_strategy yields at least one
\* step (an architecture specification its two steps, a pattern
\* specification its pattern step, any other its own step or the aggregate
\* step of its group), for every response of the grouping collaborator.
C4_EverySpecYieldsStep ==
    Synthesized => \A i \in 1..Len(specifications) : YieldsStep(specifications[i])

\* the ids of the steps synthesized from architecture specification X
ArchStepIdsOf(X) ==
    {steps[i].id : i \in {j \in 1..Len(steps) :
        /\ steps[j].description.entity_type = ARCHITECTURE
        /\ steps[j].description.name = X.entity_name}}

Wired == pc \in {"wired", "done", "raised"}

PlacesInGroups(t, spec) ==
    Cardinality({pl \in (1..Len(GroupsOf(t))) \X (1..Len(InputOfType(t))) :
        /\ pl[2] <= Len(GroupsOf(t)[pl[1]].v)
        /\ GroupsOf(t)[pl[1]].v[pl[2]] = spec})

\* C8: the groups returned by group_related_entities partition its input:
\* every specification is in exactly one group, for every input order and
\* every response of the grouping collaborator.
C8_GroupsPartitionInput ==
    Synthesized =>
        \A g \in 1..Len(groups) :
            /\ \A spec \in Range(InputOfType(groups[g].k)) :
                PlacesInGroups(groups[g].k, spec) =
                    Occurrences(InputOfType(groups[g].k), spec)
            /\ \A j \in 1..Len(groups[g].v) :
                Range(groups[g].v[j].v) \subseteq Range(InputOfType(groups[g].k))

\* no grouping collaborator: every request of the run went unanswered
NoCollaborator(answers) ==
    \A t \in DOMAIN answers : answers[t].kind = "unavailable"

\* C5: two runs of generate_strategy on an identical specification set with
\* no grouping collaborator available return identical execution_order and
\* identical dependency_map, step ids included.
C5_Determinism ==
    (/\ Returned
     /\ previous # <<>>
     /\ NoCollaborator(responses)
     /\ NoCollaborator(previous.responses))
    => /\ execution_order = previous.execution_order
       /\ Range(dependencies) = Range(previous.dependencies)

SpecNames == {specifications[i].entity_name : i \in 1..Len(specifications)}

UniqueNames == Cardinality(SpecNames) = Len(specifications)

\* the declared dependencies, read as edges between entity names of the set
DeclaredCyclic ==
    \E S \in SUBSET SpecNames :
        /\ S # {}
        /\ \A n \in S :
            \E i \in 1..Len(specifications) :
                /\ specifications[i].entity_name = n
                /\ Range(specifications[i].dependencies) \cap S # {}

\* the ids of the steps that implement a specification
StepIdsOf(spec) ==
    {steps[i].id : i \in {j \in 1..Len(steps) :
        CASE spec.entity_type = ARCHITECTURE ->
                /\ steps[j].description.entity_type = ARCHITECTURE
                /\ steps[j].description.name = spec.entity_name
          [] spec.entity_type = PATTERN ->
                steps[j].description =
                    [kind |-> "pattern", entity_type |-> PATTERN,
                     name |-> spec.entity_name]
          [] OTHER ->
                \/ steps[j].description =
                    [kind |-> "entity", entity_type |-> spec.entity_type,
                     name |-> spec.entity_name]
                \/ /\ steps[j].description.kind = "group"
                   /\ steps[j].description.entity_type = spec.entity_type
                   /\ \E g \in 1..Len(GroupsOf(spec.entity_type)) :
                        /\ GroupsOf(spec.entity_type)[g].k = steps[j].description.name
                        /\ spec \in Range(GroupsOf(spec.entity_type)[g].v)}}

\* C7: when the declared dependencies are acyclic and specification S
\* declares a dependency on a specification D of the set, the step that
\* implements D appears before the step that implements S in
\* execution_order whenever those are different steps, members of aggregate
\* groups included.
C7_DeclaredDependenciesRespected ==
    (Returned /\ UniqueNames /\ ~DeclaredCyclic) =>
        \A i, j \in 1..Len(specifications) :
            specifications[j].entity_name \in Range(specifications[i].dependencies)
            => \A s \in StepIdsOf(specifications[i]),
                  d \in StepIdsOf(specifications[j]) :
                    s # d => Precedes(d, s)

SelfDependent ==
    \E i \in 1..Len(specifications) :
        specifications[i].entity_name \in Range(specifications[i].dependencies)

\* C9: a specification that lists its own entity_name among its dependencies
\* does not abort planning: generate_strategy does not raise, and the
\* returned execution_order contains every synthesized step.
C9_SelfDependencyTolerated ==
    SelfDependent =>
        /\ pc # "raised"
        /\ Returned => StepIds \subseteq Range(execution_order)

\* a returned plan of several steps, one of which depends on itself
C9_Witness ==
    /\ Returned
    /\ SelfDependent
    /\ FallbackPath
    /\ Len(steps) > 2
    /\ \E id \in StepIds : id \in DependencyMap(id)
    /\ StepIds \subseteq Range(execution_order)

\* C10: whenever the step dependency graph of a run contains a cycle, the
\* run reports a warning that identifies the specific edges that were
\* removed or collapsed, not merely that a cycle exists.
C10_CycleWarningNamesEdges ==
    (Returned /\ MapHasCycle) =>
        \E w \in 1..Len(warnings) : warnings[w].edges # {}

\* C11: when two specifications of the input share one entity_name, the
\* planning run aborts with an error: no Strategy is returned.
C11_DuplicateNameAborts == ~UniqueNames => ~Returned

\* two synthesized steps received the same id
IdCollision == Cardinality(StepIds) < Len(steps)

\* C12: if two synthesized steps receive the same id, the planning run
\* aborts with an error: it never goes on to return a Strategy in which one
\* step's dependency_map entry or graph node stands for both.
C12_IdCollisionAborts == IdCollision => ~Returned

\* the collaborator raised, or its response is not a mapping from group
\* names to lists of entity names
FailedKinds == {"unavailable", "invalid_json", "not_a_mapping", "number_values",
                "text_values"}

\* the groups of the name heuristics alone, empty groups removed (line 219)
HeuristicOnly(t) ==
    SelectSeq(HeuristicGroups(InputOfType(t)), LAMBDA g : Len(g.v) > 0)

\* C13: when "common" holds more than 5 specifications and the collaborator
\* raises or returns a malformed response, group_related_entities does not
\* raise and returns exactly the groups of the name heuristics (same names,
\* same members, same order).
C13_FailedRefinementKeepsHeuristicGroups ==
    \A t \in DOMAIN responses :
        responses[t].kind \in FailedKinds
        => pc # "raised" /\ GroupsOf(t) = HeuristicOnly(t)

\* the specification has one step of its own
HasIndividualStep(spec) == Cardinality(StepIdsOf(spec)) = 1

\* specifications a, b, c of the input are A, B, C with A declaring nothing,
\* B declaring A and C declaring B
IsChain(a, b, c) ==
    /\ specifications[a].dependencies = <<>>
    /\ specifications[b].dependencies = <<specifications[a].entity_name>>
    /\ specifications[c].dependencies = <<specifications[b].entity_name>>

\* C14: for three specifications A, B, C with an individual step each, where
\* A declares no dependencies, B declares A and C declares B, the execution
\* order is A's step, B's step, C's step, in whatever order they are given.
C14_ChainOrder ==
    (Returned /\ Len(specifications) = 3 /\ UniqueNames) =>
        \A a, b, c \in 1..3 :
            (/\ IsChain(a, b, c)
             /\ \A i \in 1..3 : HasIndividualStep(specifications[i]))
            => execution_order \in
                 {<<ia, ib, ic>> : ia \in StepIdsOf(specifications[a]),
                                   ib \in StepIdsOf(specifications[b]),
                                   ic \in StepIdsOf(specifications[c])}

\* specifications a and b of the input declare each other
Mutual(a, b) ==
    /\ a # b
    /\ specifications[b].entity_name \in Range(specifications[a].dependencies)
    /\ specifications[a].entity_name \in Range(specifications[b].dependencies)

\* C15: for two specifications A and B that declare each other, planning
\* breaks exactly one of the two step-level edges: the returned
\* dependency_map keeps only the other edge, and the returned two-step
\* execution order is consistent with that edge.
C15_MutualDependencyBroken ==
    (/\ Returned
     /\ Len(specifications) = 2
     /\ UniqueNames
     /\ Mutual(1, 2)
     /\ \A i \in 1..2 : HasIndividualStep(specifications[i]))
    => \A ia \in StepIdsOf(specifications[1]), ib \in StepIdsOf(specifications[2]) :
          \/ /\ ia \in DependencyMap(ib)
             /\ ib \notin DependencyMap(ia)
             /\ execution_order = <<ia, ib>>
          \/ /\ ib \in DependencyMap(ia)
             /\ ia \notin DependencyMap(ib)
             /\ execution_order = <<ib, ia>>

\* the positions of the specifications of entity type t in the input
IndicesOfType(t) ==
    {i \in 1..Len(specifications) : specifications[i].entity_type = t}

NoDeclaredDependencies ==
    \A i \in 1..Len(specifications) : specifications[i].dependencies = <<>>

\* no two specifications of entity type t were put together by the name
\* heuristics: every group but "common" has one member
NoNamingAffinity(t) ==
    \A g \in 1..Len(GroupsOf(t)) :
        GroupsOf(t)[g].k # COMMON => Len(GroupsOf(t)[g].v) = 1

\* the ids of the individual steps of a specification
EntityStepIdsOf(spec) ==
    {steps[j].id : j \in {n \in 1..Len(steps) :
        steps[n].description =
            [kind |-> "entity", entity_type |-> spec.entity_type,
             name |-> spec.entity_name]}}

ArchitectureWithFiveClasses ==
    /\ Len(specifications) = 6
    /\ Cardinality(IndicesOfType(ARCHITECTURE)) = 1
    /\ Cardinality(IndicesOfType(CLASS)) = 5
    /\ UniqueNames
    /\ NoDeclaredDependencies

\* C16: for one architecture specification and five class specifications
\* without naming affinity and without declared dependencies, the execution
\* order is the Setup step, the Components step, then five class steps, one
\* per class specification, each gated behind both architecture steps.
C16_ArchitectureThenFiveClasses ==
    (Returned /\ ArchitectureWithFiveClasses /\ NoNamingAffinity(CLASS)) =>
        /\ Len(execution_order) = 7
        /\ \E i \in 1..Len(steps) :
            /\ steps[i].description.kind = "setup"
            /\ execution_order[1] = steps[i].id
        /\ \E i \in 1..Len(steps) :
            /\ steps[i].description.kind = "components"
            /\ execution_order[2] = steps[i].id
        /\ \A i \in IndicesOfType(CLASS) :
            \E n \in 3..7 :
                /\ execution_order[n] \in EntityStepIdsOf(specifications[i])
                /\ {execution_order[1], execution_order[2]}
                      \subseteq DependencyMap(execution_order[n])

\* the ids of the architecture steps of the run
ArchStepIds ==
    {steps[j].id : j \in {n \in 1..Len(steps) :
        steps[n].description.entity_type = ARCHITECTURE}}

\* the specification declares a name that no specification of the set has
DeclaresAbsentName(spec) == Range(spec.dependencies) \ SpecNames # {}

\* the ids an individual step may depend on: the architecture steps and the
\* steps of the declared dependencies that are in the set
ResolvableIds(spec) ==
    ArchStepIds \cup
    UNION {StepIdsOf(specifications[j]) : j \in {n \in 1..Len(specifications) :
        /\ specifications[n].entity_name \in Range(spec.dependencies)
        /\ specifications[n].entity_type # ARCHITECTURE}}

\* C17: when a specification declares a dependency on a name that is the
\* entity_name of no specification of the set, no edge is created for that
\* name, no error is raised, and the dependency_map entry of the
\* specification's step contains nothing for that name.
C17_AbsentDependencyIgnored ==
    UniqueNames =>
        \A i \in 1..Len(specifications) :
            DeclaresAbsentName(specifications[i]) =>
                /\ pc # "raised"
                /\ Wired =>
                    \A sid \in EntityStepIdsOf(specifications[i]) :
                        DependencyMap(sid) \subseteq ResolvableIds(specifications[i])

\* a returned plan with architecture steps in which the step of a
\* specification that declares only an absent name depends on the
\* architecture steps and on nothing else
C17_Witness ==
    /\ Returned
    /\ UniqueNames
    /\ Len(steps) > 3
    /\ \E i \in 1..Len(specifications) :
        /\ DeclaresAbsentName(specifications[i])
        /\ \E sid \in EntityStepIdsOf(specifications[i]) :
            /\ ArchStepIds # {}
            /\ DependencyMap(sid) = ArchStepIds

\* the input is seven specifications of entity type t, the collaborator was
\* asked and was unreachable, and all seven are in the "common" group
SevenInCommon(t) ==
    /\ Len(specifications) = 7
    /\ IndicesOfType(t) = 1..7
    /\ UniqueNames
    /\ t \in DOMAIN responses
    /\ responses[t].kind = "unavailable"
    /\ GroupsOf(t) = <<[k |-> COMMON, v |-> specifications]>>

\* C18: when 7 specifications of one entity type share no naming affinity
\* and the collaborator is unreachable, all 7 are in "common" and the plan
\* has 7 individual steps, one per specification, and no aggregate step.
C18_SevenIndividualSteps ==
    (Synthesized /\ SevenInCommon(CLASS)) =>
        /\ Len(steps) = 7
        /\ \A i \in 1..7 : EntityStepIdsOf(specifications[i]) # {}
        /\ \A j \in 1..Len(steps) : steps[j].description.kind # "group"

(***************************************************************************)
(* calculate_execution_order on its own: the steps and the dependency map  *)
(* are any of a bounded family, not only those generate_strategy builds.   *)
(***************************************************************************)
MaxOrderSteps == 3

\* steps to order: their ids are all that calculate_execution_order reads
OrderDrafts ==
    << Draft(CLASS, CLASS \o Underscore \o CART, "entity", CLASS, CART, FALSE),
       Draft(CLASS, CLASS \o Underscore \o ORDER, "entity", CLASS, ORDER, FALSE),
       Draft(PATTERN, PATTERN \o Underscore \o OBS, "pattern", PATTERN, OBS, FALSE),
       Draft(FUNCTION, FUNCTION \o Underscore \o ORDER, "entity", FUNCTION, ORDER, FALSE),
       Draft(CLASS, CLASS \o Underscore \o CART_ITEM, "entity", CLASS, CART_ITEM, FALSE) >>

OrderSteps(n) == MakeSteps(SubSeq(OrderDrafts, 1, n), <<UuidLow>>)

\* the dependency map that gives step i the steps chosen[i], in creation order
DependencyMapOf(given, chosen) ==
    LET ids == List([i \in 1..Len(given) |-> given[i].id])
    IN  List([i \in 1..Len(given) |->
            [k |-> ids[i],
             v |-> SelectSeq(ids, LAMBDA id : id \in {ids[j] : j \in chosen[i]})]])

InitOrder ==
    /\ specifications = <<>>
    /\ pc = "wired"
    /\ responses = <<>>
    /\ groups = <<>>
    /\ entity_steps_by_type = <<>>
    /\ execution_order = <<>>
    /\ warnings = <<>>
    /\ previous = <<>>
    /\ strategy_generator = NewGenerator(<<>>)
    /\ repair = NoRepair
    /\ \E n \in 1..MaxOrderSteps :
        /\ steps = OrderSteps(n)
        /\ \E chosen \in [1..n -> SUBSET (1..n)] :
            dependencies = DependencyMapOf(OrderSteps(n), chosen)

NextOrder == CalculateOrder

SpecOrder == InitOrder /\ [][NextOrder]_vars

\* C20: whenever the dependency map passed to calculate_execution_order is
\* acyclic, the returned order is a topological order of it: every step
\* appears, after all the steps listed in its dependency entry.
C20_AcyclicMapOrdered ==
    (Returned /\ ~MapHasCycle) =>
        /\ StepIds \subseteq Range(execution_order)
        /\ \A i \in 1..Len(dependencies) :
            \A dep \in Range(dependencies[i].v) :
                Precedes(dep, dependencies[i].k)

\* an acyclic map in which the first step created depends on the last one
\* and some step on two others
C20_Witness ==
    /\ Returned
    /\ ~MapHasCycle
    /\ Len(steps) = MaxOrderSteps
    /\ steps[Len(steps)].id \in DependencyMap(steps[1].id)
    /\ \E i \in 1..Len(dependencies) : Len(dependencies[i].v) = 2
    /\ execution_order[Len(execution_order)] = steps[1].id

(***************************************************************************)
(* StrategyGenerator.generate_strategy, two runs on one object.  Each      *)
(* action is one step of one run; the runs interleave between steps.       *)
(***************************************************************************)
RunIds == {1, 2}

RunOf(r) == strategy_generator.runs[r]

\* the run r moves to the record `run`, the object's graph becomes g
Advance(r, run, g) ==
    strategy_generator' =
        [dependency_graph |-> g,
         runs |-> [strategy_generator.runs EXCEPT ![r] = run]]

\* the position after the i-th round of a loop over the specifications
AfterRound(run, exit) ==
    IF run.i < Len(run.specifications)
    THEN [run EXCEPT !.i = run.i + 1]
    ELSE [run EXCEPT !.pc = exit, !.i = 1]

OthersUnchanged ==
    UNCHANGED <<specifications, pc, responses, groups, steps, entity_steps_by_type,
                dependencies, execution_order, warnings, previous, repair>>

\* _build_dependency_graph line 97: self.dependency_graph.clear()
ClearGraph(r) ==
    /\ RunOf(r).pc = "start"
    /\ Advance(r, [RunOf(r) EXCEPT !.pc = IF Len(RunOf(r).specifications) = 0
                                         THEN "steps" ELSE "nodes"],
               EmptyGraph)
    /\ OthersUnchanged

\* lines 100-101: one round of the loop that adds a node per specification
AddSpecNode(r) ==
    /\ RunOf(r).pc = "nodes"
    /\ Advance(r, AfterRound(RunOf(r), "edges"),
               AddNode(strategy_generator.dependency_graph,
                       RunOf(r).specifications[RunOf(r).i].id))
    /\ OthersUnchanged

\* lines 104-122: one round of the loop that adds the edges of a
\* specification; _analyze_implicit_dependencies finds none (its three
\* analysers return empty lists)
AddSpecEdges(r) ==
    /\ RunOf(r).pc = "edges"
    /\ Advance(r, AfterRound(RunOf(r), "steps"),
               AddRequires(strategy_generator.dependency_graph,
                           RunOf(r).specifications[RunOf(r).i].id,
                           RunOf(r).specifications[RunOf(r).i].dependencies))
    /\ OthersUnchanged

\* lines 81-84: steps are generated and ordered on a graph local to the call
OptimizeSteps(r) ==
    /\ RunOf(r).pc = "steps"
    /\ Advance(r, [RunOf(r) EXCEPT !.pc = "extract"], strategy_generator.dependency_graph)
    /\ OthersUnchanged

\* lines 87-93 and _extract_dependencies: the edges of self.dependency_graph
\* become the dependencies of the returned strategy
ExtractDependencies(r) ==
    /\ RunOf(r).pc = "extract"
    /\ Advance(r, [RunOf(r) EXCEPT !.pc = "returned",
                                   !.dependencies = GraphEdges(strategy_generator.dependency_graph)],
               strategy_generator.dependency_graph)
    /\ OthersUnchanged

InitGenerator ==
    /\ specifications = <<>>
    /\ pc = "start"
    /\ responses = <<>>
    /\ groups = <<>>
    /\ steps = <<>>
    /\ entity_steps_by_type = <<>>
    /\ dependencies = <<>>
    /\ execution_order = <<>>
    /\ warnings = <<>>
    /\ previous = <<>>
    /\ repair = NoRepair
    /\ \E first \in SeqsUpTo(FirstSet, MaxRunSpecs), second \in SeqsUpTo(SecondSet, MaxRunSpecs) :
           strategy_generator = NewGenerator(<<NewRun(first), NewRun(second)>>)

NextGenerator ==
    \E r \in RunIds :
        \/ ClearGraph(r)
        \/ AddSpecNode(r)
        \/ AddSpecEdges(r)
        \/ OptimizeSteps(r)
        \/ ExtractDependencies(r)

SpecGenerator == InitGenerator /\ [][NextGenerator]_vars

\* C19: when two generate_strategy runs on one StrategyGenerator interleave,
\* the dependencies each run returns hold only edges built from that run's
\* own specifications.
C19_RunsReturnOwnEdges ==
    \A r \in DOMAIN strategy_generator.runs :
        RunOf(r).pc = "returned" =>
            \A k \in DOMAIN RunOf(r).dependencies :
                \E i \in DOMAIN RunOf(r).specifications :
                    /\ RunOf(r).dependencies[k][1] = RunOf(r).specifications[i].id
                    /\ RunOf(r).dependencies[k][2] \in Range(RunOf(r).specifications[i].dependencies)

(***************************************************************************)
(* StrategyGenerator._break_cycles as a state machine: one action per      *)
(* branch of an iteration of its loop.  repair is [pc, graph, data, cycle, *)
(* removed, given]: the position, the graph and the strengths of its       *)
(* edges, cycles[0], the edges removed so far and the graph it was given.  *)
(***************************************************************************)
\* the step graphs _break_cycles is given: up to MaxRepairEdges edges, self-
\* loops included, on three nodes; an edge is untracked or has strength 0.5
MaxRepairEdges == 4
WeakStrength == 5
RepairNodes == <<"a", "b", "c">>
RepairPairs ==
    Flatten(List([i \in 1..Len(RepairNodes) |->
        List([j \in 1..Len(RepairNodes) |-> <<RepairNodes[i], RepairNodes[j]>>])]))

StepGraph(edges) ==
    [nodes |-> RepairNodes, edges |-> SelectSeq(RepairPairs, LAMBDA e : e \in edges)]

StrengthData(weak) ==
    LET tracked == SelectSeq(RepairPairs, LAMBDA e : e \in weak)
    IN  List([i \in 1..Len(tracked) |-> [k |-> tracked[i], v |-> WeakStrength]])

InitRepair ==
    /\ specifications = <<>>
    /\ pc = "start"
    /\ responses = <<>>
    /\ groups = <<>>
    /\ steps = <<>>
    /\ entity_steps_by_type = <<>>
    /\ dependencies = <<>>
    /\ execution_order = <<>>
    /\ warnings = <<>>
    /\ previous = <<>>
    /\ strategy_generator = NewGenerator(<<>>)
    /\ \E edges \in {E \in SUBSET Range(RepairPairs) : Cardinality(E) <= MaxRepairEdges} :
        \E weak \in SUBSET edges :
            repair = [pc |-> "test", graph |-> StepGraph(edges), data |-> StrengthData(weak),
                      cycle |-> <<>>, removed |-> <<>>, given |-> StepGraph(edges)]

RepairOthersUnchanged ==
    UNCHANGED <<specifications, pc, responses, groups, steps, entity_steps_by_type,
                dependencies, execution_order, warnings, previous, strategy_generator>>

\* lines 325, 340: the loop ends on an acyclic graph, which is returned
ReturnGraph ==
    /\ repair.pc = "test"
    /\ is_directed_acyclic_graph(repair.graph)
    /\ repair' = [repair EXCEPT !.pc = "returned"]
    /\ RepairOthersUnchanged

\* lines 326-331: cycles[0] of a graph that is not acyclic (the list of
\* cycles of such a graph is not empty: line 328 does not leave the loop)
TakeFirstCycle ==
    /\ repair.pc = "test"
    /\ ~is_directed_acyclic_graph(repair.graph)
    /\ \E cycle \in FirstCycles(repair.graph) :
        repair' = [repair EXCEPT !.pc = "cycle", !.cycle = cycle]
    /\ RepairOthersUnchanged

\* lines 332-338: the weakest of the consecutive pairs is removed
RemoveWeakest ==
    /\ repair.pc = "cycle"
    /\ Len(ConsecutivePairs(repair.cycle)) > 0
    /\ LET weakest_edge == WeakestEdge(ConsecutivePairs(repair.cycle), repair.data)
       IN  repair' = [repair EXCEPT !.pc = "test",
                                    !.graph = RemoveEdge(@, weakest_edge),
                                    !.removed = Append(@, weakest_edge)]
    /\ RepairOthersUnchanged

\* line 332: min() of an empty list raises ValueError
RaiseValueError ==
    /\ repair.pc = "cycle"
    /\ Len(ConsecutivePairs(repair.cycle)) = 0
    /\ repair' = [repair EXCEPT !.pc = "raised"]
    /\ RepairOthersUnchanged

NextRepair == ReturnGraph \/ TakeFirstCycle \/ RemoveWeakest \/ RaiseValueError

SpecRepair == InitRepair /\ [][NextRepair]_vars

\* the loop is left: by return or by the exception
RepairEnded == repair.pc \in {"returned", "raised"}

\* C21: for any input step graph, graphs with self-loops and graphs whose
\* cycles share edges included, _break_cycles returns without raising and
\* the graph it returns is acyclic.
C21_BreakCyclesReturnsAcyclic ==
    RepairEnded => repair.pc = "returned" /\ is_directed_acyclic_graph(repair.graph)

\* the edges of the cycle in repair.cycle, the closing edge included
CycleEdges == {<<repair.cycle[i], NextOnCycle(repair.cycle, i)>> : i \in 1..Len(repair.cycle)}

\* C22: in each repair iteration the removed edge is an edge of the first
\* enumerated cycle whose strength (1.0 when untracked) is minimal among all
\* edges of that cycle, the closing edge from the last node to the first
\* included.
C22_RemovedEdgeIsWeakestOfCycle ==
    [][RemoveWeakest =>
        LET removed_edge == repair'.removed[Len(repair'.removed)]
        IN  /\ removed_edge \in CycleEdges
            /\ \A e \in CycleEdges : Strength(repair.data, removed_edge) <= Strength(repair.data, e)]_vars

\* the scheduling of the loop: an iteration that can run runs
SpecRepairFair == SpecRepair /\ WF_vars(NextRepair)

\* e is an edge of an elementary circuit of g
OnCycle(g, e) ==
    \E c \in simple_cycles(g) : \E i \in 1..Len(c) : <<c[i], NextOnCycle(c, i)>> = e

\* C23: the repair loop of _break_cycles ends (by return or by an exception)
\* for every finite input graph, after removing at most as many edges as the
\* graph initially has: every iteration that does not end the loop removes
\* exactly one edge, and that edge lies on a cycle.
C23_RepairLoopTerminates ==
    /\ [](/\ Len(repair.removed) <= Len(repair.given.edges)
          /\ Len(repair.graph.edges) + Len(repair.removed) = Len(repair.given.edges))
    /\ [][(repair.pc = "cycle" /\ ~RepairEnded') =>
            /\ Len(repair'.removed) = Len(repair.removed) + 1
            /\ Range(repair'.graph.edges) =
                  Range(repair.graph.edges) \ {repair'.removed[Len(repair'.removed)]}
            /\ OnCycle(repair.graph, repair'.removed[Len(repair'.removed)])]_vars
    /\ <>RepairEnded

C23_Witness ==
    /\ repair.pc = "returned"
    /\ Len(repair.removed) = 2
    /\ Len(repair.given.edges) = MaxRepairEdges
    /\ \A i \in 1..Len(repair.removed) : OnCycle(repair.given, repair.removed[i])

\* the ids from which a step of S can be reached along dependency edges
\* (dep -> step), the steps of S included
RECURSIVE Ancestors(_)
Ancestors(S) ==
    LET more == S \cup UNION {DependencyMap(n) : n \in S}
    IN  IF more = S THEN S ELSE Ancestors(more)

\* u and v lie in one strongly connected component of the dependency graph
SameComponent(u, v) == u \in Ancestors({v}) /\ v \in Ancestors({u})

\* C24: on the cyclic fallback path of calculate_execution_order the emitted
\* order is a topological order of the condensation graph: for every
\* dependency edge u -> v whose end points lie in different strongly
\* connected components u appears before v, and the ids of one component
\* are emitted contiguously, in ascending lexicographic order.
C24_FallbackOrdersCondensation ==
    (Returned /\ FallbackPath) =>
        /\ \A v \in StepIds : \A u \in DependencyMap(v) :
                ~SameComponent(u, v) => Precedes(u, v)
        /\ \A i, j \in 1..Len(execution_order) :
                (i < j /\ SameComponent(execution_order[i], execution_order[j])) =>
                    /\ StrLess(execution_order[i], execution_order[j])
                    /\ \A k \in i..j : SameComponent(execution_order[i], execution_order[k])

C24_Witness ==
    /\ Returned
    /\ FallbackPath
    /\ \E v \in StepIds : \E u \in DependencyMap(v) : ~SameComponent(u, v)
    /\ \E u, v \in StepIds : u # v /\ SameComponent(u, v)
    /\ Len(execution_order) > 3

\* the steps whose dependencies are all among the first p entries of
\* execution_order and that are not among them, as positions in `steps`
ReadyAfter(p) ==
    {n \in 1..Len(steps) :
        /\ steps[n].id \notin {execution_order[q] : q \in 1..p}
        /\ DependencyMap(steps[n].id) \subseteq {execution_order[q] : q \in 1..p}}

\* C25: for an acyclic dependency map ties are broken by step creation
\* order: each step emitted into execution_order is the earliest-created
\* step among all steps whose dependencies have all been emitted already.
C25_TiesByCreationOrder ==
    (Returned /\ ~MapHasCycle /\ Cardinality(StepIds) = Len(steps)) =>
        \A p \in 1..Len(execution_order) :
            \E n \in ReadyAfter(p - 1) :
                /\ steps[n].id = execution_order[p]
                /\ \A m \in ReadyAfter(p - 1) : n <= m

\* run r has built the dependency graph and no other run has touched it
BuiltAlone(r) ==
    /\ RunOf(r).pc \in {"steps", "extract", "returned"}
    /\ \A o \in DOMAIN strategy_generator.runs : o # r => RunOf(o).pc = "start"

SpecIdsOf(r) == {RunOf(r).specifications[i].id : i \in DOMAIN RunOf(r).specifications}

\* C26: after _build_dependency_graph the node set of the dependency graph
\* is exactly the set of input specifications: a declared dependency name
\* gets a Requires edge only if it identifies a specification of the set,
\* and a name that identifies none creates neither an edge nor a node.
C26_GraphNodesAreSpecifications ==
    \A r \in DOMAIN strategy_generator.runs :
        BuiltAlone(r) =>
            /\ Range(strategy_generator.dependency_graph.nodes) = SpecIdsOf(r)
            /\ \A e \in Range(strategy_generator.dependency_graph.edges) :
                    e[1] \in SpecIdsOf(r) /\ e[2] \in SpecIdsOf(r)

\* what the steps generated for one entity type describe, in creation order
DescriptionsOf(t) ==
    LET type_steps == DictGet(entity_steps_by_type, t)
    IN  List([i \in 1..Len(type_steps) |-> type_steps[i].description])

\* what the steps of one group are to describe: the group, if it has more
\* than 3 members, else its members in member order
DescriptionsFor(t, group) ==
    IF Len(group.v) > 3
    THEN <<[kind |-> "group", entity_type |-> t, name |-> group.k]>>
    ELSE List([i \in 1..Len(group.v) |->
            [kind |-> "entity", entity_type |-> t, name |-> group.v[i].entity_name]])

\* C27: for every entity type other than architecture and pattern and every
\* group of that type, a group with more than 3 members yields exactly one
\* aggregate step and no per-specification steps, and a group with 1 to 3
\* members yields exactly one step per member specification, in member
\* order.
C27_GroupSizeDecidesSteps ==
    Synthesized =>
        \A n \in 1..Len(entity_steps_by_type) :
            LET t == entity_steps_by_type[n].k
            IN  /\ t \notin {ARCHITECTURE, PATTERN}
                /\ DescriptionsOf(t) =
                      Flatten(List([i \in 1..Len(GroupsOf(t)) |->
                                        DescriptionsFor(t, GroupsOf(t)[i])]))

C27_Witness ==
    /\ Synthesized
    /\ \E n \in 1..Len(entity_steps_by_type) :
        LET t == entity_steps_by_type[n].k
        IN  /\ \E i \in 1..Len(GroupsOf(t)) : Len(GroupsOf(t)[i].v) = 3 + 1
            /\ \E i \in 1..Len(GroupsOf(t)) : Len(GroupsOf(t)[i].v) \in 2..3
            /\ Len(DescriptionsOf(t)) > 2

\* C28: in the returned Strategy every step's own dependencies field holds
\* the same set of step ids as that step's dependency_map entry: a Components
\* step has its Setup step in its entry, and entity steps have their wired
\* dependencies in their field.
C28_StepFieldMatchesMap ==
    Returned =>
        \A i \in 1..Len(steps) : Range(steps[i].dependencies) = DependencyMap(steps[i].id)

\* the group lines 187-193 put a name in when it joins no existing group
OwnGroup(entity_name) ==
    LET name_parts == Split(entity_name)
    IN  IF Len(name_parts) > 1 /\ Len(name_parts[1]) > 3
        THEN Lower(name_parts[1]) ELSE COMMON

\* C29: in group_related_entities a specification joins an already existing
\* non-common group only on a case-sensitive match between its entity_name
\* and the group's name (prefix or substring): two names that differ only in
\* letter case do not match.  Stated on the groups of the name heuristics:
\* a member of a group other than its own one matches that group's name.
C29_CaseSensitiveMatch ==
    Synthesized =>
        \A n \in 1..Len(groups) :
            groups[n].k \notin DOMAIN responses =>
                \A i \in 1..Len(groups[n].v) : \A j \in 1..Len(groups[n].v[i].v) :
                    LET group_name == groups[n].v[i].k
                        entity_name == groups[n].v[i].v[j].entity_name
                    IN  (group_name # COMMON /\ OwnGroup(entity_name) # group_name) =>
                            \/ StartsWith(entity_name, group_name)
                            \/ Contains(entity_name, group_name)

\* C30: if the declared dependencies among the input specifications contain
\* no cycle and no self-reference, the dependency_map built by
\* establish_step_dependencies is acyclic, also when the set contains
\* pattern specifications that other specifications declare as dependencies.
C30_WiringAddsNoCycle ==
    (Wired /\ UniqueNames /\ ~DeclaredCyclic) => ~MapHasCycle
====
